---------------------------- MODULE Spec2Model ----------------------------
(***************************************************************************)
(* A model of the fftpp transform engine: FFTComplex (src/FFTComplex.h)    *)
(* and the two versions of FFTReal (src/unnamed/part_000, the earlier      *)
(* one without the inPlace argument, and src/unnamed/part_001).            *)
(*                                                                         *)
(* The sample type T of the templates is a value of the model:            *)
(*   "float"           the floating-point path, computed in exact          *)
(*                     arithmetic (see "Exact reals" below);               *)
(*   "int16", "int32"  the integral (fixed-point) path, computed with the  *)
(*                     widths of the C++ types.                            *)
(***************************************************************************)
EXTENDS Integers, Sequences, FiniteSets, TLC

VARIABLES
    T,          \* the sample type the engine is instantiated with
    fft,        \* the FFTComplex object: size, factors, twiddlesFwd, twiddlesInv
    rfft,       \* the FFTReal object: version, size, twiddle tables, or its state
    timeData,   \* the caller's time-domain input buffer
    freqData,   \* the caller's frequency-domain buffer
    outData,    \* the caller's time-domain output buffer (of an inverse)
    last,       \* the last call made, with its arguments
    thr         \* the calls in progress on the two threads of SpecConc

vars == <<T, fft, rfft, timeData, freqData, outData, last, thr>>

(***************************************************************************)
(* Bounds of the model.                                                    *)
(***************************************************************************)
\* complex FFT sizes 1..MaxN are constructed
MaxN == 10
\* real FFT sizes 1..MaxM are constructed
MaxM == 16
MaxPattern == 5
MaxFixedN == 8
MaxCode == 63
MaxSharedN == 6
MaxSharedM == 8

(***************************************************************************)
(* Exact reals.  Every number the floating-point path computes from        *)
(* integer samples lies in the ring Z[1/2][z], z = exp(2*pi*i/Mr), with    *)
(* Mr = 4 * size: the twiddles are cosines and sines of multiples of       *)
(* 2*pi/Mr.  A real is [v, e]: the number (SUM_k v[k] * z^k) / 2^e, a sum  *)
(* whose value is real.  cos(2*pi*j/Mr) is (z^j + z^-j)/2, and             *)
(* sin(t) = cos(t - pi/2).                                                 *)
(***************************************************************************)
Pow2(n) == IF n <= 0 THEN 1 ELSE 2 ^ n

\* f itself, as an evaluated value: the checker keeps a function expression
\* unevaluated and would compute it again at every use
Val(f) == IF f = f THEN f ELSE f

RDom(a) == DOMAIN a.v
ROrder(a) == Cardinality(RDom(a))

RInt(Mr, n) == [v |-> Val([k \in 0..(Mr - 1) |-> IF k = 0 THEN n ELSE 0]), e |-> 0]

RCosIdx(Mr, j) ==
    [v |-> Val([k \in 0..(Mr - 1) |->
                   (IF k = j % Mr THEN 1 ELSE 0) + (IF k = (0 - j) % Mr THEN 1 ELSE 0)]),
     e |-> 1]

RSinIdx(Mr, j) == RCosIdx(Mr, j - (Mr \div 4))

RAdd(a, b) ==
    LET m == IF a.e >= b.e THEN a.e ELSE b.e
    IN  [v |-> Val([k \in RDom(a) |->
                       a.v[k] * Pow2(m - a.e) + b.v[k] * Pow2(m - b.e)]),
         e |-> m]

RNeg(a) == [v |-> Val([k \in RDom(a) |-> 0 - a.v[k]]), e |-> a.e]

RSub(a, b) == RAdd(a, RNeg(b))

\* the coefficient of z^i in the product: the sum over k in S of bv[k] * av[i - k]
RECURSIVE ConvSum(_, _, _, _, _)
ConvSum(av, bv, i, S, Mr) ==
    IF S = {} THEN 0
    ELSE LET k == CHOOSE x \in S : TRUE
         IN  bv[k] * av[(i - k) % Mr] + ConvSum(av, bv, i, S \ {k}, Mr)

RMul(a, b) ==
    LET supp == {k \in RDom(b) : b.v[k] # 0}
        Mr   == ROrder(a)
    IN  [v |-> Val([i \in RDom(a) |-> ConvSum(a.v, b.v, i, supp, Mr)]),
         e |-> a.e + b.e]

RHalf(a) == [v |-> a.v, e |-> a.e + 1]

(***************************************************************************)
(* The canonical form of a real: the coordinates over the power basis of   *)
(* Z[z] (for every prime p dividing Mr, with q the power of p in Mr, the   *)
(* sum of z^(k + j*Mr/p), j = 0..p-1, is zero, which removes the indices k *)
(* with k mod q >= q - q/p), with the common powers of two cancelled.  Two *)
(* reals are the same number exactly when their canonical forms are equal. *)
(***************************************************************************)
IsPrime(p) == p >= 2 /\ \A d \in 2..(p - 1) : p % d # 0

RECURSIVE PrimePower(_, _)
PrimePower(n, p) == IF n % p = 0 THEN p * PrimePower(n \div p, p) ELSE 1

IsTop(Mr, p, k) ==
    LET q == PrimePower(Mr, p) IN (k % q) >= q - (q \div p)

TopMate(Mr, p, k) ==
    CHOOSE m \in 0..(Mr - 1) :
        /\ IsTop(Mr, p, m)
        /\ \E j \in 0..(p - 1) : m = (k + j * (Mr \div p)) % Mr

ReducePrime(v, Mr, p) ==
    Val([k \in 0..(Mr - 1) |->
            IF IsTop(Mr, p, k) THEN 0 ELSE v[k] - v[TopMate(Mr, p, k)]])

RECURSIVE ReduceAll(_, _, _)
ReduceAll(v, Mr, P) ==
    IF P = {} THEN v
    ELSE LET p == CHOOSE x \in P : TRUE
         IN  ReduceAll(ReducePrime(v, Mr, p), Mr, P \ {p})

RECURSIVE StripTwos(_)
StripTwos(a) ==
    IF a.e > 0 /\ \A k \in RDom(a) : a.v[k] % 2 = 0
    THEN StripTwos([v |-> Val([k \in RDom(a) |-> a.v[k] \div 2]), e |-> a.e - 1])
    ELSE a

RCanon(a) ==
    LET Mr == ROrder(a)
        P  == {p \in 2..Mr : Mr % p = 0 /\ IsPrime(p)}
        w  == ReduceAll(a.v, Mr, P)
    IN  IF \A k \in RDom(a) : w[k] = 0 THEN RInt(Mr, 0)
        ELSE StripTwos([v |-> w, e |-> a.e])


(***************************************************************************)
(* The integral sample types.  A sample is [val, ovf]: the value, and      *)
(* whether a signed addition or subtraction that produced it, or one of    *)
(* the values it was computed from, left the range of T (undefined         *)
(* behaviour in C++; the value kept is the wrapped one, the outcome of a   *)
(* two's-complement build).                                                *)
(***************************************************************************)
IntTypes == {"int16", "int32"}

fftpp_is_floating_point(t) == t = "float"

fftpp_is_integral(t) == t \in IntTypes

Bits(t) == IF t = "int16" THEN 16 ELSE 32

\* std::numeric_limits<T>::max() and min()
TMax(t) == IF t = "int16" THEN 32767 ELSE 2147483647

TMin(t) == (0 - TMax(t)) - 1

ISample(n) == [val |-> n, ovf |-> FALSE]

(***************************************************************************)
(* int64_t values are [hi, mid, lo], the number hi*2^32 + mid*2^16 + lo    *)
(* with 0 <= mid, lo < 2^16: the checker's integers are 32 bits wide.      *)
(***************************************************************************)
W16 == 2 ^ 16

\* (int64_t) a * (int64_t) b, for a and b of at most 32 bits
Mul64(a, b) ==
    LET ah == a \div W16
        al == a % W16
        bh == b \div W16
        bl == b % W16
        u  == (al % 256) * bl
        w  == (al \div 256) * bl
        s  == (w % 256) * 256 + u
        c0 == (w \div 256) + (s \div W16)
        m1 == ah * bl
        m2 == al * bh
        t  == c0 + (m1 % W16) + (m2 % W16)
    IN  [hi  |-> ah * bh + (m1 \div W16) + (m2 \div W16) + (t \div W16),
         mid |-> t % W16,
         lo  |-> s % W16]

FRACBITS == 31

\* (T) (x + (1 << (FRACBITS - 1))) >> FRACBITS, with T = int64_t
sround(x) ==
    LET g  == FRACBITS - 16
        c  == (x.mid + Pow2(g - 1)) \div Pow2(g)
        s0 == (x.hi % Pow2(g)) * Pow2(16 - g) + c
        u  == (x.hi \div Pow2(g)) + (s0 \div W16)
    IN  [hi |-> u \div W16, mid |-> u % W16, lo |-> s0 % W16]

\* the conversion (T) x of an int64_t to the sample type
Narrow(t, x) ==
    IF Bits(t) = 16
    THEN IF x.lo >= 32768 THEN x.lo - W16 ELSE x.lo
    ELSE IF x.mid >= 32768 THEN (x.mid - W16) * W16 + x.lo ELSE x.mid * W16 + x.lo

\* a + b and a - b on T
IAdd(t, a, b) ==
    LET x == a.val
        y == b.val
        high == x > 0 /\ y > TMax(t) - x
        low  == x < 0 /\ y < TMin(t) - x
    IN  [val |-> IF high THEN ((x + TMin(t)) + y) + TMin(t)
                 ELSE IF low THEN ((x - TMin(t)) + y) - TMin(t)
                 ELSE x + y,
         ovf |-> a.ovf \/ b.ovf \/ high \/ low]

ISub(t, a, b) ==
    LET x == a.val
        y == b.val
        high == y < 0 /\ x > TMax(t) + y
        low  == y > 0 /\ x < TMin(t) + y
    IN  [val |-> IF high THEN ((x + TMin(t)) - y) + TMin(t)
                 ELSE IF low THEN ((x - TMin(t)) - y) - TMin(t)
                 ELSE x - y,
         ovf |-> a.ovf \/ b.ovf \/ high \/ low]

(***************************************************************************)
(* floor (0.5 + max * cos (phase)) and floor (0.5 + max * sin (phase)) as  *)
(* the constructor of FFTComplex computes them in double precision, for    *)
(* the sizes 1..9: entry [size][i + 1] is <<cos, sin>> of the phase        *)
(* factor * i (Fwd) and factor * i * -1 (Inv), factor = -2 * pi / size.    *)
(***************************************************************************)
IntTwiddlesFwd16 ==
    <<
        << <<32767, 0>> >>,
        << <<32767, 0>>, <<-32767, 0>> >>,
        << <<32767, 0>>, <<-16383, -28377>>, <<-16384, 28377>> >>,
        << <<32767, 0>>, <<0, -32767>>, <<-32767, 0>>, <<0, 32767>> >>,
        << <<32767, 0>>, <<10126, -31163>>, <<-26509, -19260>>, <<-26509, 19260>>, <<10126, 31163>> >>,
        << <<32767, 0>>, <<16384, -28377>>, <<-16383, -28377>>, <<-32767, 0>>, <<-16384, 28377>>, <<16383, 28377>> >>,
        << <<32767, 0>>, <<20430, -25618>>, <<-7291, -31945>>, <<-29522, -14217>>, <<-29522, 14217>>, <<-7291, 31945>>, <<20430, 25618>> >>,
        << <<32767, 0>>, <<23170, -23170>>, <<0, -32767>>, <<-23170, -23170>>, <<-32767, 0>>, <<-23170, 23170>>, <<0, 32767>>, <<23170, 23170>> >>,
        << <<32767, 0>>, <<25101, -21062>>, <<5690, -32269>>, <<-16383, -28377>>, <<-30791, -11207>>, <<-30791, 11207>>, <<-16384, 28377>>, <<5690, 32269>>, <<25101, 21062>> >>
    >>

IntTwiddlesInv16 ==
    <<
        << <<32767, 0>> >>,
        << <<32767, 0>>, <<-32767, 0>> >>,
        << <<32767, 0>>, <<-16383, 28377>>, <<-16384, -28377>> >>,
        << <<32767, 0>>, <<0, 32767>>, <<-32767, 0>>, <<0, -32767>> >>,
        << <<32767, 0>>, <<10126, 31163>>, <<-26509, 19260>>, <<-26509, -19260>>, <<10126, -31163>> >>,
        << <<32767, 0>>, <<16384, 28377>>, <<-16383, 28377>>, <<-32767, 0>>, <<-16384, -28377>>, <<16383, -28377>> >>,
        << <<32767, 0>>, <<20430, 25618>>, <<-7291, 31945>>, <<-29522, 14217>>, <<-29522, -14217>>, <<-7291, -31945>>, <<20430, -25618>> >>,
        << <<32767, 0>>, <<23170, 23170>>, <<0, 32767>>, <<-23170, 23170>>, <<-32767, 0>>, <<-23170, -23170>>, <<0, -32767>>, <<23170, -23170>> >>,
        << <<32767, 0>>, <<25101, 21062>>, <<5690, 32269>>, <<-16383, 28377>>, <<-30791, 11207>>, <<-30791, -11207>>, <<-16384, -28377>>, <<5690, -32269>>, <<25101, -21062>> >>
    >>

IntTwiddlesFwd32 ==
    <<
        << <<2147483647, 0>> >>,
        << <<2147483647, 0>>, <<-2147483647, 0>> >>,
        << <<2147483647, 0>>, <<-1073741823, -1859775393>>, <<-1073741824, 1859775393>> >>,
        << <<2147483647, 0>>, <<0, -2147483647>>, <<-2147483647, 0>>, <<0, 2147483647>> >>,
        << <<2147483647, 0>>, <<663608942, -2042378316>>, <<-1737350766, -1262259217>>, <<-1737350766, 1262259217>>, <<663608942, 2042378316>> >>,
        << <<2147483647, 0>>, <<1073741824, -1859775393>>, <<-1073741823, -1859775393>>, <<-2147483647, 0>>, <<-1073741824, 1859775393>>, <<1073741823, 1859775393>> >>,
        << <<2147483647, 0>>, <<1338934154, -1678970323>>, <<-477860067, -2093641748>>, <<-1934815910, -931758234>>, <<-1934815910, 931758234>>, <<-477860067, 2093641748>>, <<1338934154, 1678970323>> >>,
        << <<2147483647, 0>>, <<1518500249, -1518500249>>, <<0, -2147483647>>, <<-1518500249, -1518500249>>, <<-2147483647, 0>>, <<-1518500249, 1518500249>>, <<0, 2147483647>>, <<1518500249, 1518500249>> >>,
        << <<2147483647, 0>>, <<1645067914, -1380375880>>, <<372906622, -2114858545>>, <<-1073741823, -1859775393>>, <<-2017974536, -734482665>>, <<-2017974536, 734482665>>, <<-1073741824, 1859775393>>, <<372906622, 2114858545>>, <<1645067914, 1380375880>> >>
    >>

IntTwiddlesInv32 ==
    <<
        << <<2147483647, 0>> >>,
        << <<2147483647, 0>>, <<-2147483647, 0>> >>,
        << <<2147483647, 0>>, <<-1073741823, 1859775393>>, <<-1073741824, -1859775393>> >>,
        << <<2147483647, 0>>, <<0, 2147483647>>, <<-2147483647, 0>>, <<0, -2147483647>> >>,
        << <<2147483647, 0>>, <<663608942, 2042378316>>, <<-1737350766, 1262259217>>, <<-1737350766, -1262259217>>, <<663608942, -2042378316>> >>,
        << <<2147483647, 0>>, <<1073741824, 1859775393>>, <<-1073741823, 1859775393>>, <<-2147483647, 0>>, <<-1073741824, -1859775393>>, <<1073741823, -1859775393>> >>,
        << <<2147483647, 0>>, <<1338934154, 1678970323>>, <<-477860067, 2093641748>>, <<-1934815910, 931758234>>, <<-1934815910, -931758234>>, <<-477860067, -2093641748>>, <<1338934154, -1678970323>> >>,
        << <<2147483647, 0>>, <<1518500249, 1518500249>>, <<0, 2147483647>>, <<-1518500249, 1518500249>>, <<-2147483647, 0>>, <<-1518500249, -1518500249>>, <<0, -2147483647>>, <<1518500249, -1518500249>> >>,
        << <<2147483647, 0>>, <<1645067914, 1380375880>>, <<372906622, 2114858545>>, <<-1073741823, 1859775393>>, <<-2017974536, 734482665>>, <<-2017974536, -734482665>>, <<-1073741824, -1859775393>>, <<372906622, -2114858545>>, <<1645067914, -1380375880>> >>
    >>


(***************************************************************************)
(* Scalar math functions.  A phase is [n, d]: the angle 2*pi*n/d.          *)
(***************************************************************************)
IntTwiddle(t, phase) ==
    LET tab == IF phase.n <= 0
               THEN (IF t = "int16" THEN IntTwiddlesFwd16 ELSE IntTwiddlesFwd32)
               ELSE (IF t = "int16" THEN IntTwiddlesInv16 ELSE IntTwiddlesInv32)
        i   == IF phase.n <= 0 THEN 0 - phase.n ELSE phase.n
    IN  tab[phase.d][i + 1]

scos(t, Mr, phase) ==
    IF fftpp_is_floating_point(t)
    THEN RCosIdx(Mr, (phase.n * Mr) \div phase.d)
    ELSE ISample(IntTwiddle(t, phase)[1])

ssin(t, Mr, phase) ==
    IF fftpp_is_floating_point(t)
    THEN RSinIdx(Mr, (phase.n * Mr) \div phase.d)
    ELSE ISample(IntTwiddle(t, phase)[2])

smul(t, a, b) ==
    IF fftpp_is_floating_point(t)
    THEN RMul(a, b)
    ELSE [val |-> Narrow(t, sround(Mul64(a.val, b.val))), ovf |-> a.ovf \/ b.ovf]

\* cdiv is called in the integral path only, so a / b of the floating-point
\* path is never computed
sdiv(t, a, b) == smul(t, a, ISample(TMax(t) \div b))

halve(t, x) ==
    IF fftpp_is_floating_point(t)
    THEN RHalf(x)
    ELSE [val |-> x.val \div 2, ovf |-> x.ovf]

\* the operators +, - and the literal 0 of T
sadd(t, a, b) == IF fftpp_is_floating_point(t) THEN RAdd(a, b) ELSE IAdd(t, a, b)

ssub(t, a, b) == IF fftpp_is_floating_point(t) THEN RSub(a, b) ELSE ISub(t, a, b)

szero(t, like) ==
    IF fftpp_is_floating_point(t) THEN RInt(ROrder(like), 0) ELSE ISample(0)

(***************************************************************************)
(* Complex math functions.  A std::complex<T> is [re, im].                 *)
(***************************************************************************)
Cplx(r, i) == [re |-> r, im |-> i]

cadd(t, a, b) == Cplx(sadd(t, a.re, b.re), sadd(t, a.im, b.im))

csub(t, a, b) == Cplx(ssub(t, a.re, b.re), ssub(t, a.im, b.im))

\* std::conj: the imaginary part negated
conj(t, a) == Cplx(a.re, ssub(t, szero(t, a.im), a.im))

cmul(t, a, b) ==
    Cplx(ssub(t, smul(t, a.re, b.re), smul(t, a.im, b.im)),
         sadd(t, smul(t, a.re, b.im), smul(t, a.im, b.re)))

cdiv(t, c, d) == Cplx(sdiv(t, c.re, d), sdiv(t, c.im, d))

cexp(t, Mr, phase) == Cplx(scos(t, Mr, phase), ssin(t, Mr, phase))


(***************************************************************************)
(* FFTComplex.  The object is [size, factors, twiddlesFwd, twiddlesInv];   *)
(* factors is the used prefix of Factor factors[32].  A buffer of          *)
(* std::complex<T> is a function on 0..n-1, a pointer into it an offset.   *)
(***************************************************************************)
\* (size_t) std::sqrt ((double) size)
ISqrt(n) == CHOOSE r \in 0..n : r * r <= n /\ (r + 1) * (r + 1) > n

\* one pass of the switch on p
NextRadix(p) == IF p = 4 THEN 2 ELSE IF p = 2 THEN 3 ELSE p + 2

\* while (fftSize % p) { switch (p) ...; if (p > root) p = fftSize; }
RECURSIVE SkipRadix(_, _, _)
SkipRadix(fftSize, p, root) ==
    IF fftSize % p = 0 THEN p
    ELSE LET p1 == NextRadix(p)
         IN  SkipRadix(fftSize, IF p1 > root THEN fftSize ELSE p1, root)

\* a faulty factor loop that records the length before dividing fftSize by p:
\* the factor list of C11 must tell it from the code's
RECURSIVE BuildFactorsStaleLength(_, _, _)
BuildFactorsStaleLength(fftSize, p, root) ==
    LET p1   == SkipRadix(fftSize, p, root)
        rest == fftSize \div p1
        rec  == [radix |-> p1, length |-> fftSize]
    IN  IF rest > 1 THEN <<rec>> \o BuildFactorsStaleLength(rest, p1, root)
        ELSE <<rec>>

\* do { ...; factor.radix = p; factor.length = fftSize; } while (fftSize > 1)
RECURSIVE BuildFactors(_, _, _)
BuildFactors(fftSize, p, root) ==
    LET p1   == SkipRadix(fftSize, p, root)
        rest == fftSize \div p1
        rec  == [radix |-> p1, length |-> rest]
    IN  IF rest > 1 THEN <<rec>> \o BuildFactors(rest, p1, root) ELSE <<rec>>

\* Mr is the order of the ring the exact reals of the engine live in
FFTComplex(t, fftSize, Mr) ==
    [size        |-> fftSize,
     twiddlesFwd |-> Val([i \in 0..(fftSize - 1) |->
                             cexp(t, Mr, [n |-> 0 - i, d |-> fftSize])]),
     twiddlesInv |-> Val([i \in 0..(fftSize - 1) |->
                             cexp(t, Mr, [n |-> i, d |-> fftSize])]),
     factors     |-> BuildFactors(fftSize, 4, ISqrt(fftSize))]

\* a faulty butterfly2 that does not divide its inputs by the radix: the
\* headroom of C9 must tell it from the code's
Butterfly2InUnscaled(t, z) == z

\* if constexpr (integral): cdiv (*output, 2), cdiv (*output2, 2)
Butterfly2In(t, z) == IF fftpp_is_integral(t) THEN cdiv(t, z, 2) ELSE z

\* (*output2++) = (*output) - t; (*output++) += t, as <<*output, *output2>>
Butterfly2Out(t, a, tt) == <<cadd(t, a, tt), csub(t, a, tt)>>

\* the loop body of butterfly2, at iteration i: the values it leaves in
\* *output and *output2
Butterfly2Step(t, output, o, stride, length, twiddles, i) ==
    Butterfly2Out(t, Butterfly2In(t, output[o + i]),
                  cmul(t, Butterfly2In(t, output[o + length + i]), twiddles[i * stride]))

\* The iterations of a butterfly loop read and write positions no other
\* iteration touches (i, i + length, ...), so the loop is the function that
\* holds, at every position, the value its own iteration leaves there.
butterfly2(t, output, o, stride, length, twiddles) ==
    LET step == Val([i \in 0..(length - 1) |->
                        Butterfly2Step(t, output, o, stride, length, twiddles, i)])
    IN  Val([k \in DOMAIN output |->
                IF k >= o /\ k < o + 2 * length
                THEN step[(k - o) % length][((k - o) \div length) + 1]
                ELSE output[k]])

\* the first loop of butterfly4 (integral path): the four inputs of every
\* position divided by 4
Butterfly4Scale(t, output, o, length) ==
    Val([k \in DOMAIN output |->
            IF k >= o /\ k < o + 4 * length THEN cdiv(t, output[k], 4) ELSE output[k]])

\* a faulty butterfly4 that takes the inverse branch whatever `inverse' is: the
\* forward transform of C1 must tell it from the code's
Butterfly4OutInverseOnly(t, inv, x0, s3, s4, s5) ==
    <<cadd(t, x0, s3),
      Cplx(ssub(t, s5.re, s4.im), sadd(t, s5.im, s4.re)),
      csub(t, x0, s3),
      Cplx(sadd(t, s5.re, s4.im), ssub(t, s5.im, s4.re))>>

\* the four stores of the body of the second loop of butterfly4, from *output
\* after (*output) += s1 (x0) and s3, s4, s5: the values left in output[0],
\* output[length], output[length2], output[length3]
Butterfly4Out(t, inv, x0, s3, s4, s5) ==
    <<cadd(t, x0, s3),
      IF inv THEN Cplx(ssub(t, s5.re, s4.im), sadd(t, s5.im, s4.re))
             ELSE Cplx(sadd(t, s5.re, s4.im), ssub(t, s5.im, s4.re)),
      csub(t, x0, s3),
      IF inv THEN Cplx(sadd(t, s5.re, s4.im), ssub(t, s5.im, s4.re))
             ELSE Cplx(ssub(t, s5.re, s4.im), sadd(t, s5.im, s4.re))>>

\* s3 = s0 + s2, s4 = s0 - s2, s5 = (*output) - s1, (*output) += s1
Butterfly4Mix(t, inv, x, s0, s1, s2) ==
    Butterfly4Out(t, inv, cadd(t, x, s1), cadd(t, s0, s2), csub(t, s0, s2),
                  csub(t, x, s1))

\* the body of the second loop of butterfly4, at position i
Butterfly4Step(t, output, o, stride, length, twiddles, inv, i) ==
    Butterfly4Mix(t, inv, output[o + i],
                  cmul(t, output[o + i + length],     twiddles[i * stride]),
                  cmul(t, output[o + i + 2 * length], twiddles[i * stride * 2]),
                  cmul(t, output[o + i + 3 * length], twiddles[i * stride * 3]))

butterfly4(t, output, o, stride, length, twiddles, inv) ==
    LET scaled == IF fftpp_is_integral(t) THEN Butterfly4Scale(t, output, o, length)
                  ELSE output
        step   == Val([i \in 0..(length - 1) |->
                        Butterfly4Step(t, scaled, o, stride, length, twiddles, inv, i)])
    IN  Val([k \in DOMAIN output |->
                IF k >= o /\ k < o + 4 * length
                THEN step[(k - o) % length][((k - o) \div length) + 1]
                ELSE output[k]])

\* a faulty index step that never subtracts size: the index range of C12 must
\* tell it from the code's
TwIndexNextUnreduced(size, twIndex, stride, k) == twIndex + stride * k

\* twIndex += stride * k; if (twIndex >= size) twIndex -= size
TwIndexNext(size, twIndex, stride, k) ==
    IF twIndex + stride * k >= size
    THEN (twIndex + stride * k) - size
    ELSE twIndex + stride * k

\* the innermost loop of butterflyGeneric for output position k: q runs from
\* 1 to radix - 1, st.acc is output[k], st.twIndex the running twiddle index
RECURSIVE GenericSum(_, _, _, _, _, _, _, _, _)
GenericSum(t, size, scratch, twiddles, stride, radix, k, q, st) ==
    IF q >= radix THEN st.acc
    ELSE LET t2 == TwIndexNext(size, st.twIndex, stride, k)
         IN  GenericSum(t, size, scratch, twiddles, stride, radix, k, q + 1,
                        [twIndex |-> t2,
                         acc |-> cadd(t, st.acc, cmul(t, scratch[q], twiddles[t2]))])

\* the first loop of butterflyGeneric (integral path)
ButterflyGenericScale(t, output, o, radix, length) ==
    Val([k \in DOMAIN output |->
            IF k >= o /\ k < o + radix * length THEN cdiv(t, output[k], radix)
            ELSE output[k]])

\* the body of the loop on u: the gather into scratch, then the value left at
\* each of the radix positions k = u + q1 * length
ButterflyGenericStep(t, size, output, o, stride, radix, length, twiddles, u) ==
    LET scratch == Val([q \in 0..(radix - 1) |-> output[o + u + q * length]])
    IN  [q1 \in 0..(radix - 1) |->
            GenericSum(t, size, scratch, twiddles, stride, radix, u + q1 * length, 1,
                       [twIndex |-> 0, acc |-> scratch[0]])]

butterflyGeneric(t, size, output, o, stride, radix, length, twiddles) ==
    LET scaled == IF fftpp_is_integral(t)
                  THEN ButterflyGenericScale(t, output, o, radix, length)
                  ELSE output
        step   == Val([u \in 0..(length - 1) |->
                        ButterflyGenericStep(t, size, scaled, o, stride, radix, length,
                                             twiddles, u)])
    IN  Val([k \in DOMAIN output |->
                IF k >= o /\ k < o + radix * length
                THEN step[(k - o) % length][(k - o) \div length]
                ELSE output[k]])

\* a faulty perform that combines with the forward twiddle table in both
\* directions: the round trip of C2 must tell it from the code's
CombineForwardTable(t, obj, output, o, stride, f, inv) ==
    LET radix  == obj.factors[f].radix
        length == obj.factors[f].length
    IN  IF radix = 2 THEN butterfly2(t, output, o, stride, length, obj.twiddlesFwd)
        ELSE IF radix = 4
        THEN butterfly4(t, output, o, stride, length, obj.twiddlesFwd, inv)
        ELSE butterflyGeneric(t, obj.size, output, o, stride, radix, length,
                              obj.twiddlesFwd)

\* the switch on radix at the end of perform
Combine(t, obj, output, o, stride, f, inv) ==
    LET radix    == obj.factors[f].radix
        length   == obj.factors[f].length
        twiddles == IF inv THEN obj.twiddlesInv ELSE obj.twiddlesFwd
    IN  IF radix = 2 THEN butterfly2(t, output, o, stride, length, twiddles)
        ELSE IF radix = 4
        THEN butterfly4(t, output, o, stride, length, twiddles, inv)
        ELSE butterflyGeneric(t, obj.size, output, o, stride, radix, length, twiddles)

\* the loop of the base case: radix samples copied, the input strided
CopyIn(input, i, output, o, step, radix) ==
    Val([k \in DOMAIN output |->
            IF k >= o /\ k < o + radix THEN input[i + (k - o) * step] ELSE output[k]])

\* perform: the output buffer it leaves.  The radix recursive calls write the
\* disjoint blocks output + q * length and read the input only.
RECURSIVE perform(_, _, _, _, _, _, _, _, _, _)
perform(t, obj, input, i, output, o, stride, inStride, f, inv) ==
    LET radix  == obj.factors[f].radix
        length == obj.factors[f].length
        sub    == Val([q \in 0..(radix - 1) |->
                        perform(t, obj, input, i + q * stride * inStride, output,
                                o + q * length, stride * radix, inStride, f + 1, inv)])
        filled == IF length = 1
                  THEN CopyIn(input, i, output, o, stride * inStride, radix)
                  ELSE Val([k \in DOMAIN output |->
                               IF k >= o /\ k < o + radix * length
                               THEN sub[(k - o) \div length][k]
                               ELSE output[k]])
    IN  Combine(t, obj, filled, o, stride, f, inv)

\* reinterpret_cast between T* and std::complex<T>*: element k of the complex
\* view is (x[2k], x[2k + 1])
AsComplex(x) ==
    Val([k \in 0..((Cardinality(DOMAIN x) \div 2) - 1) |-> Cplx(x[2 * k], x[2 * k + 1])])

AsScalars(z) ==
    Val([n \in 0..(2 * Cardinality(DOMAIN z) - 1) |->
            IF n % 2 = 0 THEN z[n \div 2].re ELSE z[n \div 2].im])

\* FFTComplex::forward and inverse: the new contents of the output buffer
forward(t, obj, time, freq) ==
    perform(t, obj, AsComplex(time), 0, freq, 0, 1, 1, 1, FALSE)

inverse(t, obj, freq, time) ==
    AsScalars(perform(t, obj, freq, 0, AsComplex(time), 0, 1, 1, 1, TRUE))


(***************************************************************************)
(* FFTReal, in its two versions: ver = 0 is src/unnamed/part_000 (scratch  *)
(* always, two twiddle tables), ver = 1 is src/unnamed/part_001 (forward   *)
(* in place in freqData, inverse with the inPlace argument, one table).    *)
(* The object is [ver, ok, size, fft, twiddlesFwd, twiddlesInv]; ok is     *)
(* whether the assertion of the constructor held (a failed assertion       *)
(* aborts, and leaves no object to call).                                  *)
(***************************************************************************)
\* halve (fftSize) on size_t: x >> 1
halveSize(x) == x \div 2

\* the order of the ring of the exact reals of a real engine of complex size
\* n: the phases -pi * ((i + 1) / n + 0.5) are multiples of 2*pi / (2n) for
\* an even n
RealOrder(n) == 2 * n

\* the phase -pi * ((i + 1) / size + 0.5) * inv, as a fraction of 2*pi
RealPhase(i, size, inv) == [n |-> (0 - (2 * (i + 1) + size)) * inv, d |-> 4 * size]

\* initTwiddleTable (part_000), and the loop of the constructor (part_001)
initTwiddleTable(t, size, inv) ==
    Val([i \in 0..(size - 1) |-> cexp(t, RealOrder(size), RealPhase(i, size, inv))])

FFTReal(ver, t, fftSize) ==
    LET size == halveSize(fftSize)
    IN  IF (size % 2) # 0
        THEN [ver |-> ver, ok |-> FALSE, size |-> size]
        ELSE [ver |-> ver, ok |-> TRUE, size |-> size,
              fft |-> FFTComplex(t, size, RealOrder(size)),
              twiddlesFwd |-> initTwiddleTable(t, size, 1),
              twiddlesInv |-> IF ver = 0 THEN initTwiddleTable(t, size, 0 - 1)
                              ELSE <<>>]

\* if constexpr (integral): cdiv (buf[k], 2) for k < size
RealScale(t, buf, size) ==
    IF fftpp_is_integral(t)
    THEN Val([k \in DOMAIN buf |-> IF k < size THEN cdiv(t, buf[k], 2) ELSE buf[k]])
    ELSE buf

\* the two stores of the body of the loop of forward at k, into dst
RealForwardOut(t, dst, k, size, fk, tw) ==
    [dst EXCEPT
        ![k]        = Cplx(halve(t, sadd(t, fk.re, tw.re)),
                           halve(t, sadd(t, fk.im, tw.im))),
        ![size - k] = Cplx(halve(t, ssub(t, fk.re, tw.re)),
                           halve(t, ssub(t, tw.im, fk.im)))]

\* fk = s0 + s1, fknc = s0 - s1, tw = cmul (fknc, twiddle)
RealForwardMix(t, dst, k, size, s0, s1, twiddle) ==
    RealForwardOut(t, dst, k, size, cadd(t, s0, s1),
                   cmul(t, csub(t, s0, s1), twiddle))

\* the body of the loop of forward at k: src is the buffer read (tmpbuf, or
\* freqData itself in part_001), dst the buffer written
RealForwardStep(t, obj, src, dst, k) ==
    RealForwardMix(t, dst, k, obj.size, src[k], conj(t, src[obj.size - k]),
                   obj.twiddlesFwd[k - 1])

\* DC and Nyquist: freqData[0] and freqData[size] from tdc
RealForwardDC(t, tdc, freq, size) ==
    [freq EXCEPT ![0]    = Cplx(sadd(t, tdc.re, tdc.im), szero(t, tdc.re)),
                 ![size] = Cplx(ssub(t, tdc.re, tdc.im), szero(t, tdc.re))]

\* for (k = 1; k <= size / 2; ++k): part_000 reads tmpbuf (src) and writes
\* freqData (dst); part_001 reads and writes freqData, so that src follows dst
RECURSIVE RealForwardLoop(_, _, _, _, _), RealForwardNext(_, _, _, _, _)
RealForwardLoop(t, obj, src, dst, k) ==
    IF k > obj.size \div 2 THEN dst
    ELSE RealForwardNext(t, obj, src, Val(RealForwardStep(t, obj, src, dst, k)), k)

RealForwardNext(t, obj, src, dst, k) ==
    RealForwardLoop(t, obj, IF obj.ver = 0 THEN src ELSE dst, dst, k + 1)

\* std::memset (freqData + size, 0, size * sizeof (std::complex<T>))
ClearNegative(t, freq, size) ==
    Val([k \in DOMAIN freq |->
            IF k >= size /\ k < 2 * size
            THEN Cplx(szero(t, freq[k].re), szero(t, freq[k].re))
            ELSE freq[k]])

\* a scratch buffer of size complex samples (alloca), its contents irrelevant:
\* every element is written before it is read
Scratch(t, size, like) ==
    Val([k \in 0..(size - 1) |-> Cplx(szero(t, like), szero(t, like))])

RealForwardFrom(t, obj, freq) == RealForwardLoop(t, obj, freq, freq, 1)

\* forward after the inner complex FFT has left buf (tmpbuf, or freqData in
\* part_001), scaled on the integral path
RealForwardFinish(t, obj, buf, freq) ==
    IF obj.ver = 0
    THEN RealForwardLoop(t, obj, buf, RealForwardDC(t, buf[0], freq, obj.size), 1)
    ELSE ClearNegative(t, RealForwardFrom(t, obj, RealForwardDC(t, buf[0], buf, obj.size)),
                       obj.size)

\* FFTReal::forward: the contents of freqData it leaves
realForward(t, obj, time, freq) ==
    RealForwardFinish(t, obj,
        RealScale(t, forward(t, obj.fft, time,
                             IF obj.ver = 0 THEN Scratch(t, obj.size, time[0]) ELSE freq),
                  obj.size),
        freq)

\* the twiddle the inverse multiplies by at k
RealInverseTwiddle(t, obj, k) ==
    IF obj.ver = 0 THEN obj.twiddlesInv[k - 1] ELSE conj(t, obj.twiddlesFwd[k - 1])

\* the two stores of the body of the loop of inverse at k
RealInverseOut(t, buf, k, size, fk, tw) ==
    [buf EXCEPT ![k] = cadd(t, fk, tw), ![size - k] = conj(t, csub(t, fk, tw))]

RealInverseMix(t, buf, k, size, s0, s1, twiddle) ==
    RealInverseOut(t, buf, k, size, cadd(t, s0, s1), cmul(t, csub(t, s0, s1), twiddle))

\* the body of the loop of inverse at k, on tempBuffer
RealInverseStep(t, obj, buf, k) ==
    RealInverseMix(t, buf, k, obj.size, buf[k], conj(t, buf[obj.size - k]),
                   RealInverseTwiddle(t, obj, k))

RECURSIVE RealInverseLoop(_, _, _, _)
RealInverseLoop(t, obj, buf, k) ==
    IF k > obj.size \div 2 THEN buf
    ELSE RealInverseLoop(t, obj, Val(RealInverseStep(t, obj, buf, k)), k + 1)

\* tmpbuf[0] = { freqData[0].real() + freqData[size].real(), ... } and the
\* memcpy of freqData[1..size-1]
RealInversePack(t, freq, size) ==
    Val([k \in 0..(size - 1) |->
            IF k = 0
            THEN Cplx(sadd(t, freq[0].re, freq[size].re),
                      ssub(t, freq[0].re, freq[size].re))
            ELSE freq[k]])

\* tempBuffer before the recombination pass: freqData itself in part_001 with
\* inPlace, else the scratch buffer with element 0 packed
RealInverseStart(t, obj, freq, inPlace) ==
    IF obj.ver = 1 /\ inPlace THEN freq ELSE RealInversePack(t, freq, obj.size)

\* the buffer the inner complex inverse FFT is run on: tempBuffer after the
\* recombination loop.  part_001 with inPlace uses freqData itself, unpacked.
RealInverseTemp(t, obj, freq, inPlace) ==
    RealInverseLoop(t, obj, RealScale(t, RealInverseStart(t, obj, freq, inPlace), obj.size),
                    1)

\* a faulty inverse that recombines in the caller's buffer whatever inPlace
\* is: the frame of C7 must tell it from the code's
RealInverseRunShared(t, obj, freq, time, inPlace, temp) ==
    <<inverse(t, obj.fft, temp, time),
      [k \in DOMAIN freq |-> IF k \in DOMAIN temp THEN temp[k] ELSE freq[k]]>>

\* fft.inverse (tempBuffer, timeData), and what is left in the caller's
\* freqData: tempBuffer is freqData itself in part_001 with inPlace
RealInverseRun(t, obj, freq, time, inPlace, temp) ==
    <<inverse(t, obj.fft, temp, time), IF obj.ver = 1 /\ inPlace THEN temp ELSE freq>>

\* FFTReal::inverse: <<the contents of timeData, the contents of freqData>> it
\* leaves
realInverse(t, obj, freq, time, inPlace) ==
    RealInverseRun(t, obj, freq, time, inPlace, RealInverseTemp(t, obj, freq, inPlace))

(***************************************************************************)
(* The callers.  A caller constructs one engine, fills timeData, runs      *)
(* forward into freqData and then inverse from freqData into outData.      *)
(* last records the call that was made last: [op, kind, n, inPlace].       *)
(***************************************************************************)
\* the order of the ring of the exact reals of a complex engine of size n:
\* the least multiple of n and of 4
Ord(n) == IF n % 4 = 0 THEN n ELSE IF n % 2 = 0 THEN 2 * n ELSE 4 * n

\* a value of T from an integer
Sample(t, Mr, n) == IF fftpp_is_floating_point(t) THEN RInt(Mr, n) ELSE ISample(n)

\* a buffer of len scalars from the integers a[0..len-1]
ScalarBuffer(t, Mr, len, a) == Val([j \in 0..(len - 1) |-> Sample(t, Mr, a[j])])

\* a buffer of len complex zeros
ComplexBuffer(t, Mr, len) ==
    Val([j \in 0..(len - 1) |-> Cplx(Sample(t, Mr, 0), Sample(t, Mr, 0))])

\* the signals the callers transform, as integers: the unit impulse at every
\* position, and the patterns 0..MaxPattern
Impulse(len, p) == [j \in 0..(len - 1) |-> IF j = p THEN 1 ELSE 0]

Pattern(len, a) ==
    [j \in 0..(len - 1) |->
        CASE a = 0 -> 1
          [] a = 1 -> j
          [] a = 2 -> IF j % 2 = 0 THEN 1 ELSE 0 - 1
          [] a = 3 -> IF j % 2 = 0 THEN 1 ELSE 0
          [] a = 4 -> IF j % 4 = 0 THEN (IF j % 8 = 0 THEN 1 ELSE 0 - 1) ELSE 0
          [] OTHER -> (((j * j * a) + (3 * j) + a) % 7) - 3]

Signals(len) ==
    {Impulse(len, p) : p \in 0..(len - 1)} \cup {Pattern(len, a) : a \in 0..MaxPattern}

\* the sizes of the complex engines: every size up to MaxN, and the composite
\* of the radices 2, 3 and 5
CompositeN == 2 * 3 * 5

Sizes == (1..MaxN) \cup {CompositeN}

\* every signal for the sizes up to MaxN, two patterns for the composite
ComplexSignals(n) ==
    IF n <= MaxN THEN Signals(2 * n) ELSE {Pattern(2 * n, a) : a \in {1, 5}}

NoCall == [op |-> "none", kind |-> "none", n |-> 0, inPlace |-> FALSE]

Init ==
    /\ T = "float"
    /\ fft = <<>>
    /\ rfft = <<>>
    /\ timeData = <<>>
    /\ freqData = <<>>
    /\ outData = <<>>
    /\ last = NoCall
    /\ thr = <<>>

\* FFTComplex<T> fft (n), and the caller's buffers: 2n scalars in and out, n
\* complex samples between
ConstructComplex(n) ==
    /\ last.op = "none"
    /\ fft' = FFTComplex(T, n, Ord(n))
    /\ timeData' = ScalarBuffer(T, Ord(n), 2 * n, Pattern(2 * n, 3))
    /\ freqData' = ComplexBuffer(T, Ord(n), n)
    /\ outData' = ScalarBuffer(T, Ord(n), 2 * n, Pattern(2 * n, 0))
    /\ last' = [op |-> "construct", kind |-> "complex", n |-> n, inPlace |-> FALSE]
    /\ UNCHANGED <<T, rfft, thr>>

\* the caller fills timeData with x and calls fft.forward (timeData, freqData)
ComplexForward(x) ==
    /\ last.op = "construct" /\ last.kind = "complex"
    /\ timeData' = ScalarBuffer(T, Ord(last.n), 2 * last.n, x)
    /\ freqData' = forward(T, fft, timeData', freqData)
    /\ last' = [last EXCEPT !.op = "forward"]
    /\ UNCHANGED <<T, fft, rfft, outData, thr>>

\* fft.inverse (freqData, outData)
ComplexInverse ==
    /\ last.op = "forward" /\ last.kind = "complex"
    /\ outData' = inverse(T, fft, freqData, outData)
    /\ last' = [last EXCEPT !.op = "inverse"]
    /\ UNCHANGED <<T, fft, rfft, timeData, freqData, thr>>

\* the number of complex samples a caller of FFTReal allocates for freqData:
\* size + 1 bins for part_000, and 2 * size for part_001, whose forward
\* clears freqData[size .. 2 * size - 1]
FreqLength(ver, size) == IF ver = 0 THEN size + 1 ELSE 2 * size

\* FFTReal<T> rfft (m): the assertion aborts the program, or the caller
\* allocates its buffers
ConstructReal(ver, m) ==
    /\ last.op = "none"
    /\ rfft' = FFTReal(ver, T, m)
    /\ IF rfft'.ok
       THEN /\ timeData' = ScalarBuffer(T, RealOrder(rfft'.size), 2 * rfft'.size,
                                        Pattern(2 * rfft'.size, 3))
            /\ freqData' = ComplexBuffer(T, RealOrder(rfft'.size),
                                         FreqLength(ver, rfft'.size))
            /\ outData' = ScalarBuffer(T, RealOrder(rfft'.size), 2 * rfft'.size,
                                       Pattern(2 * rfft'.size, 0))
            /\ last' = [op |-> "construct", kind |-> "real", n |-> m, inPlace |-> FALSE]
       ELSE /\ last' = [op |-> "abort", kind |-> "real", n |-> m, inPlace |-> FALSE]
            /\ UNCHANGED <<timeData, freqData, outData>>
    /\ UNCHANGED <<T, fft, thr>>

\* the caller fills timeData with x and calls rfft.forward (timeData, freqData);
\* callers transform with engines of a size that is a multiple of 4 only
RealForward(x) ==
    /\ last.op = "construct" /\ last.kind = "real" /\ last.n % 4 = 0
    /\ timeData' = ScalarBuffer(T, RealOrder(rfft.size), last.n, x)
    /\ freqData' = realForward(T, rfft, timeData', freqData)
    /\ last' = [last EXCEPT !.op = "forward"]
    /\ UNCHANGED <<T, fft, rfft, outData, thr>>

\* rfft.inverse (freqData, outData) of part_000, or
\* rfft.inverse (freqData, outData, inPlace) of part_001
RealInverse(inPlace) ==
    /\ last.op = "forward" /\ last.kind = "real"
    /\ rfft.ver = 0 => ~inPlace
    /\ LET r == realInverse(T, rfft, freqData, outData, inPlace)
       IN  outData' = r[1] /\ freqData' = r[2]
    /\ last' = [last EXCEPT !.op = "inverse", !.inPlace = inPlace]
    /\ UNCHANGED <<T, fft, rfft, timeData, thr>>

Next ==
    \/ \E n \in Sizes : ConstructComplex(n)
    \/ \E x \in ComplexSignals(last.n) : ComplexForward(x)
    \/ ComplexInverse
    \/ \E ver \in {0, 1}, m \in 1..MaxM : ConstructReal(ver, m)
    \/ \E x \in Signals(last.n) : RealForward(x)
    \/ \E inPlace \in BOOLEAN : RealInverse(inPlace)

Spec == Init /\ [][Next]_vars


(***************************************************************************)
(* The transforms the claims compare the engines with, computed from the   *)
(* definition of the DFT on the exact reals.                               *)
(***************************************************************************)
\* a = b as real numbers
REq(a, b) == RCanon(a) = RCanon(b)

CEq(a, b) == REq(a.re, b.re) /\ REq(a.im, b.im)

\* n * a for an integer n
RTimes(n, a) == [v |-> Val([k \in RDom(a) |-> n * a.v[k]]), e |-> a.e]

\* a times the root of unity exp (2 * pi * i * j / Mr)
Turn(a, j) == [v |-> Val([k \in RDom(a) |-> a.v[(k - j) % ROrder(a)]]), e |-> a.e]

\* a * cos (2 * pi * num / den) and a * sin (2 * pi * num / den), for den a
\* divisor of the order of the ring: cos is half the sum of the root and of
\* its inverse, and sin (x) = cos (x - pi / 2)
TimesCos(a, num, den) ==
    RHalf(RAdd(Turn(a, num * (ROrder(a) \div den)),
               Turn(a, 0 - (num * (ROrder(a) \div den)))))

TimesSin(a, num, den) ==
    RHalf(RAdd(Turn(a, (num * (ROrder(a) \div den)) - (ROrder(a) \div 4)),
               Turn(a, (ROrder(a) \div 4) - (num * (ROrder(a) \div den)))))

\* the real and the imaginary part of sum over m in 0..n of
\* x[m] * exp (sign * 2 * pi * i * m * k / len)
RECURSIVE DftRe(_, _, _, _, _, _)
DftRe(Mr, len, x, k, sign, n) ==
    IF n < 0 THEN RInt(Mr, 0)
    ELSE RAdd(DftRe(Mr, len, x, k, sign, n - 1),
              RSub(TimesCos(x[n].re, n * k, len),
                   RTimes(sign, TimesSin(x[n].im, n * k, len))))

RECURSIVE DftIm(_, _, _, _, _, _)
DftIm(Mr, len, x, k, sign, n) ==
    IF n < 0 THEN RInt(Mr, 0)
    ELSE RAdd(DftIm(Mr, len, x, k, sign, n - 1),
              RAdd(TimesCos(x[n].im, n * k, len),
                   RTimes(sign, TimesSin(x[n].re, n * k, len))))

\* bin k of the naive forward DFT of the len complex samples x
NaiveDFT(Mr, len, x, k) ==
    Cplx(DftRe(Mr, len, x, k, 0 - 1, len - 1), DftIm(Mr, len, x, k, 0 - 1, len - 1))

\* the complex samples a buffer of interleaved scalars holds
Interleaved(x, len) == [n \in 0..(len - 1) |-> Cplx(x[2 * n], x[2 * n + 1])]

\* the real samples of a buffer as complex samples
RealSamples(x, len) == [n \in 0..(len - 1) |-> Cplx(x[n], RInt(ROrder(x[n]), 0))]

\* the complex number (re, im) of integers
CInt(Mr, re, im) == Cplx(RInt(Mr, re), RInt(Mr, im))

(***************************************************************************)
(* The claims on the exact path.                                           *)
(***************************************************************************)
\* C1: when FFTComplex::forward has returned, freqData[k] is the sum over n of
\* x[n] * exp (-2 pi i n k / N) for every k in 0..N-1, in natural order: the
\* naive DFT of the input, for every size and every input the callers use
C1_ForwardIsNaiveDFT ==
    (last.kind = "complex" /\ last.op = "forward")
        => \A k \in 0..(last.n - 1) :
              CEq(freqData[k],
                  NaiveDFT(Ord(last.n), last.n, Interleaved(timeData, last.n), k))

\* scenario S2 has run: N = 4, in = (1,0, 0,0, -1,0, 0,0), freq = (0, 2, 0, 2)
C1_Witness ==
    /\ last.kind = "complex" /\ last.op = "forward" /\ last.n = 4
    /\ timeData = ScalarBuffer("float", 4, 8, Pattern(8, 4))
    /\ \A k \in 0..3 : CEq(freqData[k], CInt(4, IF k % 2 = 1 THEN 2 ELSE 0, 0))

\* C2: when FFTComplex::inverse has run on the output of forward (x), the
\* output is N * x element-wise: no transform normalises
C2_InverseOfForward ==
    (last.kind = "complex" /\ last.op = "inverse")
        => \A j \in 0..(2 * last.n - 1) :
              REq(outData[j], RTimes(last.n, timeData[j]))

\* a round trip of size 6 (radices 2 and 3) on the ramp has returned 6 * x
C2_Witness ==
    /\ last.kind = "complex" /\ last.op = "inverse" /\ last.n = 6
    /\ timeData = ScalarBuffer("float", 12, 12, Pattern(12, 1))
    /\ REq(outData[11], RInt(12, 66))


\* bin k of the M-point DFT of the M real samples the buffer x holds
RealDFT(x, M, k) == NaiveDFT(M, M, RealSamples(x, M), k)

\* C3: when FFTReal::inverse has run on the bins freq[0..N] that
\* FFTReal::forward (x) produced, the output is M * x element-wise, for every
\* version and either value of inPlace
C3_RealRoundTrip ==
    (last.kind = "real" /\ last.op = "inverse")
        => \A j \in 0..(last.n - 1) : REq(outData[j], RTimes(last.n, timeData[j]))

\* C4: when FFTReal::forward has returned, freq[0..N] are the bins 0..N of
\* the M-point DFT of x, so that freq[0] = (X[0].re + X[0].im, 0) and
\* freq[N] = (X[0].re - X[0].im, 0)
C4_RealForwardBins ==
    (last.kind = "real" /\ last.op = "forward")
        => \A k \in 0..rfft.size : CEq(freqData[k], RealDFT(timeData, last.n, k))

\* C5: the constructor of FFTReal fails exactly when M is not a multiple of 4
C5_OddSizeDetected ==
    last.kind = "real" => ((last.op = "abort") <=> (last.n % 4 # 0))

\* the input of the inner complex inverse FFT as the specification builds it
PackedInput(in, N) ==
    [k \in 0..(N - 1) |->
        IF k = 0 THEN Cplx(RAdd(in[0].re, in[N].re), RSub(in[0].re, in[N].re))
        ELSE in[k]]

\* C6: every call of FFTReal::inverse recombines the buffer that holds
\* (in[0].re + in[N].re, in[0].re - in[N].re) at 0 and in[1..N-1] after it,
\* whatever inPlace is, and so the two settings of inPlace write the same
\* output for the same input
C6_InversePacksInput ==
    [][(last'.kind = "real" /\ last'.op = "inverse")
          => /\ \A k \in 0..(rfft.size - 1) :
                   CEq(RealInverseStart(T, rfft, freqData, last'.inPlace)[k],
                       PackedInput(freqData, rfft.size)[k])
             /\ \A j \in 0..(last.n - 1) :
                   REq(outData'[j],
                       realInverse(T, rfft, freqData, outData, ~last'.inPlace)[1][j])]_vars

\* C7: a call of FFTReal::inverse with inPlace = false leaves every element
\* freq[0..N] of the caller's input buffer as it was
C7_InputUnchanged ==
    [][(last'.kind = "real" /\ last'.op = "inverse" /\ ~last'.inPlace)
          => \A k \in 0..rfft.size : freqData'[k] = freqData[k]]_vars

\* part_001's inverse has returned from a call with inPlace = false on the
\* bins of the ramp of length 8, which are not zero, and has written outData
C7_Witness ==
    /\ last.kind = "real" /\ last.op = "inverse" /\ ~last.inPlace
    /\ rfft.ver = 1 /\ last.n = 8
    /\ timeData = ScalarBuffer("float", 8, 8, Pattern(8, 1))
    /\ ~CEq(freqData[1], CInt(8, 0, 0))
    /\ ~REq(outData[0], RInt(8, 1))

\* C3 and C4 for the version part_000 alone, which has no memset and always
\* packs element 0
C3_Part000 == (last.kind = "real" /\ last.op = "inverse" /\ rfft.ver = 0) => C3_RealRoundTrip

C4_Part000 == (last.kind = "real" /\ last.op = "forward" /\ rfft.ver = 0) => C4_RealForwardBins

\* C6 for part_000 and for part_001 called with inPlace = false
C6_Scratch ==
    [][(last'.kind = "real" /\ last'.op = "inverse" /\ ~last'.inPlace)
          => \A k \in 0..(rfft.size - 1) :
                CEq(RealInverseStart(T, rfft, freqData, FALSE)[k],
                    PackedInput(freqData, rfft.size)[k])]_vars

(***************************************************************************)
(* The fixed-point path: the callers of FFTComplex<int16_t> and            *)
(* FFTComplex<int32_t>, and of smul.                                       *)
(***************************************************************************)
\* bit j of the code c
Bit(c, j) == (c \div Pow2(j)) % 2

\* the signals of the fixed-point callers: every scalar is amp or -amp - 1,
\* the signs taken from the six low bits of a code
FixedSignal(len, amp, c) ==
    [j \in 0..(len - 1) |-> IF Bit(c, j % 6) = 1 THEN amp ELSE (0 - amp) - 1]

\* full scale (T_MIN and T_MAX) and half scale
FixedSignals(t, len) ==
    {FixedSignal(len, amp, c) : amp \in {TMax(t), TMax(t) \div 2}, c \in 0..MaxCode}

\* the operands the callers of smul use
Operands(t) ==
    {TMin(t), TMax(t), 0 - Pow2(Bits(t) - 2), Pow2(Bits(t) - 2), Pow2(Bits(t) - 2) + 1,
     0 - 3, 0 - 1, 0, 1, 2, 3, 181, 0 - 255}

InitFixed ==
    /\ T \in IntTypes
    /\ fft = <<>>
    /\ rfft = <<>>
    /\ timeData = <<>>
    /\ freqData = <<>>
    /\ outData = <<>>
    /\ last = NoCall
    /\ thr = <<>>

\* outData[0] = smul (timeData[0], timeData[1])
Multiply(a, b) ==
    /\ last.op = "none"
    /\ timeData' = [j \in 0..1 |-> ISample(IF j = 0 THEN a ELSE b)]
    /\ outData' = [j \in 0..0 |-> smul(T, ISample(a), ISample(b))]
    /\ last' = [op |-> "smul", kind |-> "scalar", n |-> 0, inPlace |-> FALSE]
    /\ UNCHANGED <<T, fft, rfft, freqData, thr>>

NextFixed ==
    \/ \E n \in 1..MaxFixedN : ConstructComplex(n)
    \/ \E x \in FixedSignals(T, 2 * last.n) : ComplexForward(x)
    \/ ComplexInverse
    \/ \E a \in Operands(T), b \in Operands(T) : Multiply(a, b)

SpecFixed == InitFixed /\ [][NextFixed]_vars

\* an addition or subtraction that produced the sample, or a value it was
\* computed from, wrapped
Wrapped(buf) == \E j \in DOMAIN buf : buf[j].ovf

WrappedComplex(buf) == \E k \in DOMAIN buf : buf[k].re.ovf \/ buf[k].im.ovf

\* every scalar of the input has a magnitude of at most T_MAX / 2
HalfScale(t, buf) ==
    \A j \in DOMAIN buf :
        buf[j].val <= TMax(t) \div 2 /\ buf[j].val >= (0 - (TMax(t) \div 2)) - 1

\* C9 as stated: whatever the in-range input, no addition or subtraction of a
\* butterfly leaves the range of T, in the forward and in the inverse transform
C9_NoWrap ==
    (last.kind = "complex" /\ last.op \in {"forward", "inverse"})
        => ~WrappedComplex(freqData) /\ ~Wrapped(outData)

\* C9 with the headroom the code needs: for an input whose scalars have a
\* magnitude of at most T_MAX / 2, no addition or subtraction of a butterfly
\* leaves the range of T
C9_NoWrapHalfScale ==
    (last.kind = "complex" /\ last.op \in {"forward", "inverse"} /\ HalfScale(T, timeData))
        => ~WrappedComplex(freqData) /\ ~Wrapped(outData)

\* a 32-bit forward transform of size 6 (radix 2 over radix 3) has run on a
\* half-scale input and left a bin that is not zero
C9_Witness ==
    /\ T = "int32" /\ last.kind = "complex" /\ last.op = "forward" /\ last.n = 6
    /\ HalfScale(T, timeData)
    /\ freqData[1].re.val # 0
    /\ ~WrappedComplex(freqData)

\* (a * b + 2^(B-2)) >> (B - 1), narrowed to T: the rounded product of two
\* Q(B-1) numbers
QProduct(t, a, b) ==
    IF Bits(t) = 16
    THEN LET q == ((a * b) + Pow2(14)) \div Pow2(15)
         IN  IF q > TMax(t) THEN q - W16 ELSE q
    ELSE Narrow(t, sround(Mul64(a, b)))

\* C10: smul (a, b) is the widened product plus 2^(B-2), shifted right by
\* B - 1 bits and narrowed to T, for the 16-bit and the 32-bit sample type
C10_SmulShiftsByWidth ==
    last.op = "smul"
        => outData[0].val = QProduct(T, timeData[0].val, timeData[1].val)


(***************************************************************************)
(* Two calls on one engine.  Thread t runs one transform of the shared     *)
(* engine on buffers of its own: thr[t] is [pc, op, arg, in, out, stack,   *)
(* scratch, u, overlapped].  arg is the caller's input, in and out the     *)
(* input and the output of perform, stack the frames of the recursion of   *)
(* perform, a frame [f, i, o, stride, q] holding the factor index, the     *)
(* input and output offsets, the stride and the index of the child call;   *)
(* scratch and u are the locals of butterflyGeneric.  overlapped records   *)
(* that the thread took a step while the other call was in progress.       *)
(***************************************************************************)
Threads == {1, 2}

Other(t) == 3 - t

Idle ==
    [pc |-> "idle", op |-> "none", arg |-> <<>>, in |-> <<>>, out |-> <<>>,
     stack |-> <<>>, scratch |-> <<>>, u |-> 0, overlapped |-> FALSE]

\* the FFTComplex the steps of perform read: the engine itself, or the
\* member fft of the FFTReal
Engine == IF last.kind = "real" THEN rfft.fft ELSE fft

\* the order of the ring of the exact reals of the shared engine
EngineOrder == IF last.kind = "real" THEN RealOrder(rfft.size) ELSE Ord(last.n)

InProgress(t) == thr[t].pc \notin {"idle", "done"}

Top(t) == thr[t].stack[Len(thr[t].stack)]

TopFactor(t) == Engine.factors[Top(t).f]

\* the thread whose memory holds the scratch of a call of butterflyGeneric by
\* thread t: alloca, the stack of the caller
ScratchSharedByAll(t) == 1

ScratchOwner(t) == t

\* the signal the caller t transforms: the ramp for thread 1, the pattern 5
\* for thread 2
SharedSignals(t, len) == {Pattern(len, (4 * t) - 3)}

InitShared == Init

\* the engine is constructed, and the threads are created
ConstructShared(kind, n) ==
    /\ last.op = "none"
    /\ IF kind = "real"
       THEN rfft' = FFTReal(1, T, n) /\ fft' = fft
       ELSE fft' = FFTComplex(T, n, Ord(n)) /\ rfft' = rfft
    /\ thr' = [t \in Threads |-> Idle]
    /\ last' = [op |-> "construct", kind |-> kind, n |-> n, inPlace |-> FALSE]
    /\ UNCHANGED <<T, timeData, freqData, outData>>

\* thread t calls forward or inverse on the signal x: 2N scalars for
\* FFTComplex, M scalars or 2 * (M / 2) complex samples for FFTReal
Call(t, op, x) ==
    /\ last.op = "construct"
    /\ thr[t].pc = "idle"
    /\ thr' = [thr EXCEPT ![t] = [@ EXCEPT !.pc = "begin", !.op = op,
                  !.arg = IF last.kind = "real"
                          THEN IF op = "forward"
                               THEN ScalarBuffer(T, last.n, last.n, x)
                               ELSE AsComplex(ScalarBuffer(T, last.n, 2 * last.n, x))
                          ELSE ScalarBuffer(T, Ord(last.n), 2 * last.n, x)]]
    /\ UNCHANGED <<T, fft, rfft, timeData, freqData, outData, last>>

\* the entry of forward or inverse up to the call of perform: the casts, and
\* for FFTReal::inverse the scratch buffer and the recombination pass
Begin(t) ==
    /\ last.op = "construct" /\ thr[t].pc = "begin"
    /\ thr' = [thr EXCEPT
          ![t].pc = "enter",
          ![t].in = IF last.kind = "real" /\ thr[t].op = "inverse"
                    THEN RealInverseTemp(T, rfft, thr[t].arg, FALSE)
                    ELSE AsComplex(thr[t].arg),
          ![t].out = IF last.kind = "real" /\ thr[t].op = "forward"
                     THEN ComplexBuffer(T, last.n, 2 * rfft.size)
                     ELSE ComplexBuffer(T, EngineOrder, Engine.size),
          ![t].stack = <<[f |-> 1, i |-> 0, o |-> 0, stride |-> 1, q |-> 0]>>,
          ![t].overlapped = @ \/ InProgress(Other(t))]
    /\ UNCHANGED <<T, fft, rfft, timeData, freqData, outData, last>>

\* perform up to its first call: the copy loop of a leaf, or the call of the
\* child q
Enter(t) ==
    /\ last.op = "construct" /\ thr[t].pc = "enter"
    /\ IF TopFactor(t).length = 1
       THEN thr' = [thr EXCEPT
               ![t].pc = "combine",
               ![t].out = CopyIn(thr[t].in, Top(t).i, @, Top(t).o, Top(t).stride,
                                 TopFactor(t).radix),
               ![t].overlapped = @ \/ InProgress(Other(t))]
       ELSE thr' = [thr EXCEPT
               ![t].stack = Append(@, [f      |-> Top(t).f + 1,
                                       i      |-> Top(t).i + Top(t).q * Top(t).stride,
                                       o      |-> Top(t).o + Top(t).q * TopFactor(t).length,
                                       stride |-> Top(t).stride * TopFactor(t).radix,
                                       q      |-> 0]),
               ![t].overlapped = @ \/ InProgress(Other(t))]
    /\ UNCHANGED <<T, fft, rfft, timeData, freqData, outData, last>>

\* the switch on radix: butterfly2, butterfly4, or the scaling loop of
\* butterflyGeneric
CombineStep(t) ==
    /\ last.op = "construct" /\ thr[t].pc = "combine"
    /\ LET radix    == TopFactor(t).radix
           length   == TopFactor(t).length
           inv      == thr[t].op = "inverse"
           twiddles == IF inv THEN Engine.twiddlesInv ELSE Engine.twiddlesFwd
       IN  thr' = [thr EXCEPT
              ![t].pc = IF radix \in {2, 4} THEN "return" ELSE "gather",
              ![t].u = 0,
              ![t].out =
                  IF radix = 2
                  THEN butterfly2(T, @, Top(t).o, Top(t).stride, length, twiddles)
                  ELSE IF radix = 4
                  THEN butterfly4(T, @, Top(t).o, Top(t).stride, length, twiddles, inv)
                  ELSE IF fftpp_is_integral(T)
                  THEN ButterflyGenericScale(T, @, Top(t).o, radix, length)
                  ELSE @,
              ![t].overlapped = @ \/ InProgress(Other(t))]
    /\ UNCHANGED <<T, fft, rfft, timeData, freqData, outData, last>>

\* butterflyGeneric at u: scratch[q1] = output[k]
Gather(t) ==
    /\ last.op = "construct" /\ thr[t].pc = "gather"
    /\ LET filled == [thr EXCEPT ![ScratchOwner(t)].scratch =
                         [q \in 0..(TopFactor(t).radix - 1) |->
                             thr[t].out[Top(t).o + thr[t].u + q * TopFactor(t).length]]]
       IN  thr' = [filled EXCEPT ![t].pc = "sum",
                                 ![t].overlapped = @ \/ InProgress(Other(t))]
    /\ UNCHANGED <<T, fft, rfft, timeData, freqData, outData, last>>

\* butterflyGeneric at u: the sums into output[k], k = u + q1 * length
Sum(t) ==
    /\ last.op = "construct" /\ thr[t].pc = "sum"
    /\ LET radix   == TopFactor(t).radix
           length  == TopFactor(t).length
           o       == Top(t).o
           u       == thr[t].u
           scratch == thr[ScratchOwner(t)].scratch
           inv     == thr[t].op = "inverse"
       IN  thr' = [thr EXCEPT
              ![t].pc = IF u + 1 < length THEN "gather" ELSE "return",
              ![t].u = u + 1,
              ![t].out = [k \in DOMAIN @ |->
                  IF k >= o /\ k < o + radix * length /\ (k - o) % length = u
                  THEN GenericSum(T, Engine.size, scratch,
                                  IF inv THEN Engine.twiddlesInv ELSE Engine.twiddlesFwd,
                                  Top(t).stride, radix, k - o, 1,
                                  [twIndex |-> 0, acc |-> scratch[0]])
                  ELSE @[k]],
              ![t].overlapped = @ \/ InProgress(Other(t))]
    /\ UNCHANGED <<T, fft, rfft, timeData, freqData, outData, last>>

\* perform returns: to the loop of its caller, which calls the next child or
\* goes on to the switch, or to forward or inverse; FFTReal::forward then
\* runs its recombination pass, and the call is over
Return(t) ==
    /\ last.op = "construct" /\ thr[t].pc = "return"
    /\ LET depth == Len(thr[t].stack)
           rest  == SubSeq(thr[t].stack, 1, depth - 1)
       IN  IF depth = 1
           THEN thr' = [thr EXCEPT
                   ![t].pc = "done",
                   ![t].stack = <<>>,
                   ![t].out = IF last.kind = "real" /\ thr[t].op = "forward"
                              THEN RealForwardFinish(T, rfft, RealScale(T, @, rfft.size), @)
                              ELSE @,
                   ![t].overlapped = @ \/ InProgress(Other(t))]
           ELSE thr' = [thr EXCEPT
                   ![t].pc = IF rest[depth - 1].q + 1 < Engine.factors[rest[depth - 1].f].radix
                             THEN "enter" ELSE "combine",
                   ![t].stack = [rest EXCEPT ![depth - 1].q = @ + 1],
                   ![t].overlapped = @ \/ InProgress(Other(t))]
    /\ UNCHANGED <<T, fft, rfft, timeData, freqData, outData, last>>

NextShared ==
    \/ \E n \in 1..MaxSharedN : ConstructShared("complex", n)
    \/ \E m \in 1..MaxSharedM : m % 4 = 0 /\ ConstructShared("real", m)
    \/ \E t \in Threads, op \in {"forward", "inverse"} :
          \E x \in SharedSignals(t, 2 * last.n) : Call(t, op, x)
    \/ \E t \in Threads : Begin(t)
    \/ \E t \in Threads : Enter(t)
    \/ \E t \in Threads : CombineStep(t)
    \/ \E t \in Threads : Gather(t)
    \/ \E t \in Threads : Sum(t)
    \/ \E t \in Threads : Return(t)

SpecShared == InitShared /\ [][NextShared]_vars

\* what the call of thread t leaves in its output when it runs alone
Alone(t) ==
    IF last.kind = "real"
    THEN IF thr[t].op = "forward"
         THEN realForward(T, rfft, thr[t].arg, ComplexBuffer(T, last.n, 2 * rfft.size))
         ELSE AsComplex(realInverse(T, rfft, thr[t].arg,
                                    ScalarBuffer(T, last.n, last.n, Pattern(last.n, 0)),
                                    FALSE)[1])
    ELSE perform(T, fft, AsComplex(thr[t].arg), 0,
                 ComplexBuffer(T, Ord(last.n), last.n), 0, 1, 1, 1, thr[t].op = "inverse")

\* C8: no step of a transform writes the size, the factor list or a twiddle
\* table of the engine, and a call whose steps interleaved with those of
\* another call on the same engine leaves the output it leaves when run alone
C8_ReadOnlyEngine ==
    /\ [][last.op = "construct" => (fft' = fft /\ rfft' = rfft)]_vars
    /\ [](\A t \in DOMAIN thr : thr[t].pc = "done" => thr[t].out = Alone(t))

\* both calls are over, each took steps while the other was in progress, on
\* an engine of size 6 (radix 2 over the generic radix 3), one forward and one
\* inverse, on different signals
C8_Witness ==
    /\ last.kind = "complex" /\ last.n = 6
    /\ DOMAIN thr = Threads
    /\ \A t \in Threads : thr[t].pc = "done" /\ thr[t].overlapped
    /\ thr[1].op = "forward" /\ thr[2].op = "inverse"
    /\ thr[1].arg # thr[2].arg

(***************************************************************************)
(* The walk of perform and the twiddle reads of the butterflies.  One call *)
(* of forward or inverse on an FFTComplex is followed through the calls of *)
(* perform: thr is [pc, inv, stack], the stack holding for each active     *)
(* call its Factor* (f), its input and output offsets, its stride and the  *)
(* index q of the child call in progress.  outData is what the butterfly   *)
(* that ran last read from the twiddle table: [radix, stride, length,      *)
(* reads], every read being [q, k, idx]: the twiddle pointer or factor     *)
(* used (q), the position in the loop or in the output block (k), and the  *)
(* index into the table (idx).                                             *)
(***************************************************************************)
MaxWalkN == 64

\* butterfly2: *twiddles is read at iteration i, then twiddles += stride
RECURSIVE Butterfly2Reads(_, _, _, _)
Butterfly2Reads(stride, length, i, tw) ==
    IF i >= length THEN {}
    ELSE {[q |-> 1, k |-> i, idx |-> tw]}
            \cup Butterfly2Reads(stride, length, i + 1, tw + stride)

\* butterfly4: *tw1, *tw2, *tw3 are read in the body of the do-while, then
\* tw1 += stride, tw2 += stride * 2, tw3 += stride * 3
RECURSIVE Butterfly4Reads(_, _, _, _, _, _)
Butterfly4Reads(stride, length, i, tw1, tw2, tw3) ==
    {[q |-> 1, k |-> i, idx |-> tw1], [q |-> 2, k |-> i, idx |-> tw2],
     [q |-> 3, k |-> i, idx |-> tw3]}
        \cup IF i + 1 >= length THEN {}
             ELSE Butterfly4Reads(stride, length, i + 1, tw1 + stride,
                                  tw2 + stride * 2, tw3 + stride * 3)

\* butterflyGeneric, the loop on q for output position k: twiddles[twIndex]
\* is read after the index step
RECURSIVE GenericReads(_, _, _, _, _, _)
GenericReads(size, stride, radix, k, q, twIndex) ==
    IF q >= radix THEN {}
    ELSE {[q |-> q, k |-> k, idx |-> TwIndexNext(size, twIndex, stride, k)]}
            \cup GenericReads(size, stride, radix, k, q + 1,
                              TwIndexNext(size, twIndex, stride, k))

\* butterflyGeneric: the loops on u and q1, k = u + q1 * length
ButterflyGenericReads(size, stride, radix, length) ==
    UNION {GenericReads(size, stride, radix, u + q1 * length, 1, 0) :
              u \in 0..(length - 1), q1 \in 0..(radix - 1)}

\* the switch on radix at the end of perform, as the reads of the butterfly
\* it calls
CombineReads(obj, stride, f) ==
    [radix  |-> obj.factors[f].radix,
     stride |-> stride,
     length |-> obj.factors[f].length,
     reads  |-> IF obj.factors[f].radix = 2
                THEN Butterfly2Reads(stride, obj.factors[f].length, 0, 0)
                ELSE IF obj.factors[f].radix = 4
                THEN Butterfly4Reads(stride, obj.factors[f].length, 0, 0, 0, 0)
                ELSE ButterflyGenericReads(obj.size, stride, obj.factors[f].radix,
                                           obj.factors[f].length)]

NoReads == [radix |-> 0, stride |-> 0, length |-> 0, reads |-> {}]

WalkTop == thr.stack[Len(thr.stack)]

\* FFTComplex (fftSize)
ConstructWalk(n) ==
    /\ last.op = "none"
    /\ fft' = FFTComplex(T, n, Ord(n))
    /\ thr' = [pc |-> "idle", inv |-> FALSE, stack |-> <<>>]
    /\ outData' = NoReads
    /\ last' = [op |-> "construct", kind |-> "complex", n |-> n, inPlace |-> FALSE]
    /\ UNCHANGED <<T, rfft, timeData, freqData>>

\* forward or inverse: perform (input, output, 1, 1, factors, inverse)
CallWalk(inv) ==
    /\ last.op = "construct" /\ thr.pc = "idle"
    /\ thr' = [pc |-> "enter", inv |-> inv,
               stack |-> <<[f |-> 1, i |-> 0, o |-> 0, stride |-> 1, q |-> 0]>>]
    /\ last' = [last EXCEPT !.op = IF inv THEN "inverse" ELSE "forward"]
    /\ UNCHANGED <<T, fft, rfft, timeData, freqData, outData>>

\* perform: factor = *factors++; the copy loop when length == 1, else the
\* call of the child q with the Factor* after this one
EnterWalk ==
    /\ last.op \in {"forward", "inverse"} /\ thr.pc = "enter"
    /\ IF fft.factors[WalkTop.f].length = 1
       THEN thr' = [thr EXCEPT !.pc = "combine"]
       ELSE thr' = [thr EXCEPT !.stack = Append(@,
               [f      |-> WalkTop.f + 1,
                i      |-> WalkTop.i + WalkTop.q * WalkTop.stride,
                o      |-> WalkTop.o + WalkTop.q * fft.factors[WalkTop.f].length,
                stride |-> WalkTop.stride * fft.factors[WalkTop.f].radix,
                q      |-> 0])]
    /\ UNCHANGED <<T, fft, rfft, timeData, freqData, outData, last>>

\* perform: the switch on radix, the butterfly runs
CombineWalk ==
    /\ last.op \in {"forward", "inverse"} /\ thr.pc = "combine"
    /\ outData' = CombineReads(fft, WalkTop.stride, WalkTop.f)
    /\ thr' = [thr EXCEPT !.pc = "return"]
    /\ UNCHANGED <<T, fft, rfft, timeData, freqData, last>>

\* perform returns: to the do-while of its caller, which calls the next child
\* or goes on to the switch, or to forward or inverse
ReturnWalk ==
    /\ last.op \in {"forward", "inverse"} /\ thr.pc = "return"
    /\ LET depth == Len(thr.stack)
           rest  == SubSeq(thr.stack, 1, depth - 1)
       IN  IF depth = 1
           THEN thr' = [thr EXCEPT !.pc = "done", !.stack = <<>>]
           ELSE thr' = [thr EXCEPT
                   !.pc = IF rest[depth - 1].q + 1 < fft.factors[rest[depth - 1].f].radix
                          THEN "enter" ELSE "combine",
                   !.stack = [rest EXCEPT ![depth - 1].q = @ + 1]]
    /\ UNCHANGED <<T, fft, rfft, timeData, freqData, outData, last>>

NextWalk ==
    \/ \E n \in 1..MaxWalkN : ConstructWalk(n)
    \/ \E inv \in BOOLEAN : CallWalk(inv)
    \/ EnterWalk
    \/ CombineWalk
    \/ ReturnWalk

SpecWalk == Init /\ [][NextWalk]_vars

\* the product of the radices of the records 1..j of a factor list
RECURSIVE RadixProduct(_, _)
RadixProduct(fs, j) == IF j = 0 THEN 1 ELSE fs[j].radix * RadixProduct(fs, j - 1)

Walking == last.kind = "complex" /\ last.op \in {"construct", "forward", "inverse"}

\* C11: the radices of the factor list of an engine of size N multiply to N,
\* the length of every record is N over the product of the radices up to
\* it, the last record and no other has length 1, and the call of perform at
\* depth d of the recursion holds the record d: it copies from the input,
\* without a further call, exactly when that record is the last one
C11_FactorList ==
    Walking =>
        /\ Len(fft.factors) >= 1
        /\ RadixProduct(fft.factors, Len(fft.factors)) = last.n
        /\ \A j \in 1..Len(fft.factors) :
              /\ fft.factors[j].length * RadixProduct(fft.factors, j) = last.n
              /\ (fft.factors[j].length = 1) <=> (j = Len(fft.factors))
        /\ \A d \in 1..Len(thr.stack) :
              /\ thr.stack[d].f = d
              /\ d <= Len(fft.factors)
        /\ (thr.pc = "combine" /\ WalkTop.q = 0) => WalkTop.f = Len(fft.factors)
        /\ (thr.pc = "enter" /\ WalkTop.f = Len(fft.factors))
              => fft.factors[WalkTop.f].length = 1

\* the size 30 = 2 * 3 * 5: three records, and the recursion is at the last
\* one, about to run its butterfly
C11_Witness ==
    /\ Walking /\ last.n = CompositeN
    /\ fft.factors = <<[radix |-> 2, length |-> 15], [radix |-> 3, length |-> 5],
                       [radix |-> 5, length |-> 1]>>
    /\ thr.pc = "combine" /\ Len(thr.stack) = 3

\* C12: every twiddle index a butterfly reads lies in 0..N-1, and the index
\* butterflyGeneric reads at inner step q for output position k is
\* (q * stride * k) mod N
C12_TwiddleIndex ==
    (Walking /\ outData.radix > 0) =>
        \A r \in outData.reads :
            /\ r.idx >= 0 /\ r.idx < last.n
            /\ r.idx \in DOMAIN fft.twiddlesFwd /\ r.idx \in DOMAIN fft.twiddlesInv
            /\ outData.radix \notin {2, 4}
                  => r.idx = (r.q * outData.stride * r.k) % last.n

\* butterflyGeneric has read an index that took more than one reduction by N
\* in all (q * stride * k >= 2N), at a stride above 1
C12_Witness ==
    /\ Walking /\ outData.radix \notin {0, 2, 4} /\ outData.stride > 1
    /\ \E r \in outData.reads : r.q * outData.stride * r.k >= 2 * last.n

=============================================================================
